---- MODULE Spec2Model ----
(***************************************************************************)
(* The tooltip provider/consumer widgets of kayak_ui                        *)
(* (src/widgets/tooltip.rs): one TooltipData cell published by a            *)
(* TooltipProvider, written by the pointer-event handlers of the            *)
(* TooltipConsumer widgets below it and read by the provider's render pass. *)
(*                                                                         *)
(* Pixel coordinates are f32 in the source.  The model draws them from     *)
(* small sets of whole numbers, for which f32 arithmetic is exact; the one *)
(* division of the source, size / 2.0, is compared without rounding.       *)
(***************************************************************************)
EXTENDS Integers, Sequences, FiniteSets, TLC

\* Number of TooltipConsumer widgets in the tree.
NumConsumers == 2

Consumers == 1..NumConsumers

\* const WIDTH / HEIGHT / PADDING of TooltipProvider
WIDTH == 150
HEIGHT == 18
PADDING == <<10, 5>>

\* Option<(f32, f32)>
None == [some |-> FALSE, val |-> <<0, 0>>]
Some(v) == [some |-> TRUE, val |-> v]
unwrap_or(opt, default) == IF opt.some THEN opt.val ELSE default

\* The values the props and the pointer are drawn from.
Texts == {"", "A"}
ConsumerSizes == {None, Some(<<300, 200>>)}
ConsumerAnchors == {None, Some(<<150, 80>>)}
MousePositions == {<<50, 50>>, <<100, 50>>}
\* TooltipProviderProps: position and size of the containing rect
ProviderProps ==
    {[position |-> <<0, 0>>, size |-> <<200, 100>>],
     [position |-> <<30, 40>>, size |-> <<60, 30>>]}

\* TooltipData::default()
TooltipDataDefault ==
    [anchor |-> <<0, 0>>, size |-> None, text |-> "", visible |-> FALSE]

\* Style, as far as the consumer sets it: a partial style with a StyleProp per
\* field, "Unset" or a value.
StyleDefault == [render_command |-> "Unset", width |-> "Unset", height |-> "Unset"]

\* Option<Style>::None
NoStyles == [some |-> FALSE, val |-> StyleDefault]

\* The styles a caller may pass to a consumer: none, or a style that sets any
\* of the render command, the width and the height.
CallerStyles ==
    {NoStyles} \cup
    {Some(st) : st \in [render_command : {"Unset", "Quad"},
                        width : {"Unset", "Pixels"},
                        height : {"Unset", "Pixels"}]}

\* TooltipConsumerProps: anchor, size and text
ConsumerProps == [anchor : ConsumerAnchors, size : ConsumerSizes, text : Texts]

\* The consumers of a tree are interchangeable, so the trees are enumerated up
\* to the numbering of their consumers: consumer c + 1 never has props that
\* come before those of consumer c in the order Rank.  Two consumers may have
\* the same props.
Rank(p) ==
    (IF p.text = "" THEN 0 ELSE 4) + (IF p.size.some THEN 2 ELSE 0)
        + (IF p.anchor.some THEN 1 ELSE 0)

Trees ==
    {t \in [Consumers -> ConsumerProps] :
        \A c \in Consumers : c + 1 \in Consumers => Rank(t[c]) <= Rank(t[c + 1])}

\* What the provider's last render pass produced when it rendered no overlay.
NoOverlay ==
    [shown |-> FALSE, left |-> 0, top |-> 0, width |-> 0, height |-> 0, text |-> ""]

\* A step's record: its kind, the widget it ran in, its inputs (the pointer
\* position of a Hover; the position and size props of a render pass) and, for
\* a render pass, what it rendered: the children and the overlay.
Step(type, who, pos, size, children, overlay) ==
    [type |-> type, who |-> who, pos |-> pos, size |-> size,
     children |-> children, overlay |-> overlay]

Event(type, who, pos) == Step(type, who, pos, <<0, 0>>, FALSE, NoOverlay)

NoEvent == Event("None", 0, <<0, 0>>)

VARIABLES
    provider,     \* the context holds a TooltipData provider (create_provider ran)
    tooltip,      \* the value of the shared TooltipData cell
    consumers,    \* per consumer: its props, and whether it is constructed
                  \* (its on_event handler is installed)
    panicked,     \* a TooltipConsumer construction hit the expect and aborted
    lastEvent,    \* the step taken last: its kind, widget, inputs and output
    lastEntered,  \* the consumer that received MouseIn most recently (0: none)
    inside,       \* the consumers that received MouseIn and no MouseOut since
    hist,         \* the latest MouseIn/MouseOut deliveries, oldest first, as far
                  \* back as they begin a visit or a hand-over (see NextHist)
    styles,       \* per consumer: the styles its caller passed, and props.styles
    inflight,     \* per consumer: whether its handler is between data.get() and
                  \* data.set(state), and the local state it will write back
    overlapped    \* some handler did its data.get() while another was in flight

vars == <<provider, tooltip, consumers, panicked, lastEvent,
          lastEntered, inside, hist, styles, inflight, overlapped>>

\* The variables of handlers dispatched in parallel.  The dispatch of the
\* source runs one handler at a time, to completion: no handler is in flight
\* between two steps, and these do not change.
splitVars == <<inflight, overlapped>>

\* No handler of the consumer is in flight.
Idle == [busy |-> FALSE, state |-> TooltipDataDefault]

In(c) == [type |-> "MouseIn", who |-> c]
Out(c) == [type |-> "MouseOut", who |-> c]

\* The record of MouseIn/MouseOut deliveries (Hover and other events are not
\* recorded).  It keeps the longest suffix of the deliveries that begins
\*   a visit:      MouseIn c, MouseOut c                  or
\*   a hand-over:  MouseIn a, MouseIn b, MouseOut a       (a # b),
\* so hist = <<In(c), Out(c)>> says that the last two deliveries were those,
\* and hist = <<In(a), In(b), Out(a)>> that the last three were.
NextHist(h, e) ==
    LET last == h[Len(h)] IN
    IF e.type = "MouseIn"
    THEN IF Len(h) > 0 /\ last.type = "MouseIn" /\ last.who # e.who
         THEN <<last, e>>
         ELSE <<e>>
    ELSE IF Len(h) = 2 /\ h[2].type = "MouseIn" /\ h[1].who = e.who /\ h[2].who # e.who
         THEN <<h[1], h[2], e>>
         ELSE IF Len(h) > 0 /\ last = In(e.who)
              THEN <<last, e>>
              ELSE <<>>

Init ==
    /\ provider = FALSE
    /\ tooltip = TooltipDataDefault
    /\ \E t \in Trees :
          consumers = [c \in Consumers |->
              [mounted |-> FALSE, anchor |-> t[c].anchor, size |-> t[c].size,
               text |-> t[c].text]]
    /\ panicked = FALSE
    /\ lastEvent = NoEvent
    /\ lastEntered = 0
    /\ inside = {}
    /\ hist = <<>>
    /\ styles = [c \in Consumers |-> [caller |-> NoStyles, props |-> NoStyles]]
    /\ inflight = [c \in Consumers |-> Idle]
    /\ overlapped = FALSE

(***************************************************************************)
(* TooltipProvider: the render pass.                                       *)
(***************************************************************************)

\* context.create_provider(initial): the cell is created with the initial
\* value by the first render pass and kept by the later ones.
create_provider(initial) == IF provider THEN tooltip ELSE initial

\* tooltip_size.unwrap_or((WIDTH, HEIGHT))
tooltip_size(data) == unwrap_or(data.size, <<WIDTH, HEIGHT>>)

\* The horizontal rule with <= for <.
TooltipLeft_NonStrict(anchor, size, tsize) ==
    IF 2 * anchor[1] <= size[1]
    THEN anchor[1] + PADDING[1]
    ELSE anchor[1] - tsize[1]

\* anchor.0 < size.0 / 2.0, both sides doubled
TooltipLeft(anchor, size, tsize) ==
    IF 2 * anchor[1] < size[1]
    THEN anchor[1] + PADDING[1]
    ELSE anchor[1] - tsize[1]

\* anchor.1 < size.1 / 2.0, both sides doubled
TooltipTop(anchor, size, tsize) ==
    IF 2 * anchor[2] < size[2]
    THEN anchor[2] + PADDING[2]
    ELSE anchor[2] - tsize[2]

\* The If widget: its children are rendered exactly when the condition holds.
If(condition, children) == IF condition THEN children ELSE NoOverlay

\* The overlay rendered without the If around it.
Overlay_Unconditional(data, size) ==
    [shown  |-> TRUE,
     left   |-> TooltipLeft(data.anchor, size, tooltip_size(data)),
     top    |-> TooltipTop(data.anchor, size, tooltip_size(data)),
     width  |-> tooltip_size(data)[1],
     height |-> tooltip_size(data)[2],
     text   |-> data.text]

\* <If condition={visible}>
\*     <Background styles={Some(tooltip_styles)}> <Clip> <Text content={text} .../>
Overlay(data, size) ==
    If(data.visible,
       [shown  |-> TRUE,
        left   |-> TooltipLeft(data.anchor, size, tooltip_size(data)),
        top    |-> TooltipTop(data.anchor, size, tooltip_size(data)),
        width  |-> tooltip_size(data)[1],
        height |-> tooltip_size(data)[2],
        text   |-> data.text])

\* A render pass that puts a fresh TooltipData into the context every time.
TooltipProvider_Resets(position, size) ==
    /\ ~panicked
    /\ provider' = TRUE
    /\ tooltip' = TooltipDataDefault
    /\ lastEvent' = Step("Render", 0, position, size, TRUE, Overlay(tooltip', size))
    /\ UNCHANGED <<consumers, panicked, lastEntered, inside, hist,
                   styles, splitVars>>

\* One render pass of the provider.
TooltipProvider(position, size) ==
    /\ ~panicked
    /\ provider' = TRUE
    /\ tooltip' = create_provider(TooltipDataDefault)
    /\ lastEvent' = Step("Render", 0, position, size, TRUE, Overlay(tooltip', size))
    /\ UNCHANGED <<consumers, panicked, lastEntered, inside, hist,
                   styles, splitVars>>

(***************************************************************************)
(* TooltipConsumer: construction and the on_event handler.                 *)
(***************************************************************************)

\* context.create_consumer::<TooltipData>(): a handle exactly when a provider
\* of TooltipData exists above the consumer.
create_consumer == provider

\* The lookup's failure swallowed instead of raised.
expect_Lenient(handle) == "ok"

\* .expect("TooltipConsumer requires TooltipProvider as an ancestor")
expect(handle) == IF handle THEN "ok" ELSE "panic"

\* MouseIn that writes the size only when the consumer has one.
OnMouseIn_KeepsSize(state, size, text) ==
    [state EXCEPT !.visible = TRUE, !.text = text,
                  !.size = IF size.some THEN size ELSE state.size]

\* MouseIn that also moves the anchor back to the origin.
OnMouseIn_ResetsAnchor(state, size, text) ==
    [state EXCEPT !.visible = TRUE, !.text = text, !.size = size,
                  !.anchor = <<0, 0>>]

\* EventType::MouseIn
OnMouseIn(state, size, text) ==
    [state EXCEPT !.visible = TRUE, !.text = text, !.size = size]

\* Hover that follows the pointer only while the tooltip is visible.
OnHover_WhenVisible(state, anchor, mouse) ==
    IF state.visible THEN [state EXCEPT !.anchor = unwrap_or(anchor, mouse)] ELSE state

\* EventType::Hover
OnHover(state, anchor, mouse) ==
    [state EXCEPT !.anchor = unwrap_or(anchor, mouse)]

\* MouseOut variants that a slip in the guard would produce: the guard dropped,
\* the comparison inverted, the text cleared together with the flag.
OnMouseOut_NoGuard(state, text) ==
    [state EXCEPT !.visible = FALSE]

OnMouseOut_Inverted(state, text) ==
    [state EXCEPT !.visible = (FALSE \/ state.text = text)]

OnMouseOut_ClearsText(state, text) ==
    [state EXCEPT !.visible = (FALSE \/ state.text # text),
                  !.text = IF state.text = text THEN "" ELSE state.text]

\* EventType::MouseOut
OnMouseOut(state, text) ==
    [state EXCEPT !.visible = (FALSE \/ state.text # text)]

\* Style::with_style: the fields of other fill the fields of self that are
\* unset; a field that self has set stays.
with_style(self, other) ==
    IF other.some
    THEN [f \in DOMAIN self |-> IF self[f] = "Unset" THEN other.val[f] ELSE self[f]]
    ELSE self

\* The consumer's styles with the caller's styles applied first.
ConsumerStyles_CallerFirst(caller) ==
    with_style(
        with_style(
            with_style(StyleDefault, caller),
            Some([StyleDefault EXCEPT !.render_command = "Clip"])),
        Some([StyleDefault EXCEPT !.width = "Auto", !.height = "Auto"]))

\* props.styles of the consumer, from the styles of its caller
ConsumerStyles(caller) ==
    with_style(
        with_style(
            with_style(StyleDefault,
                       Some([StyleDefault EXCEPT !.render_command = "Clip"])),
            caller),
        Some([StyleDefault EXCEPT !.width = "Auto", !.height = "Auto"]))

\* Construction of consumer c.  Without a provider the expect panics: the
\* construction aborts before props.on_event is set, and the program with it.
TooltipConsumer(c) ==
    /\ ~panicked
    /\ ~consumers[c].mounted
    /\ styles' = [styles EXCEPT ![c].props = Some(ConsumerStyles(styles[c].caller))]
    /\ IF expect(create_consumer) = "ok"
       THEN /\ consumers' = [consumers EXCEPT ![c].mounted = TRUE]
            /\ UNCHANGED panicked
       ELSE /\ panicked' = TRUE
            /\ UNCHANGED consumers
    /\ lastEvent' = Event("Construct", c, <<0, 0>>)
    /\ UNCHANGED <<provider, tooltip, lastEntered, inside, hist, splitVars>>

\* An event reaches the handler of a constructed consumer only.
Handles(c) == ~panicked /\ consumers[c].mounted

MouseIn(c) ==
    /\ Handles(c)
    /\ tooltip' = OnMouseIn(tooltip, consumers[c].size, consumers[c].text)
    /\ lastEvent' = Event("MouseIn", c, <<0, 0>>)
    /\ lastEntered' = c
    /\ inside' = inside \cup {c}
    /\ hist' = NextHist(hist, In(c))
    /\ UNCHANGED <<provider, consumers, panicked, styles, splitVars>>

Hover(c, mouse) ==
    /\ Handles(c)
    /\ tooltip' = OnHover(tooltip, consumers[c].anchor, mouse)
    /\ lastEvent' = Event("Hover", c, mouse)
    /\ UNCHANGED <<provider, consumers, panicked, lastEntered, inside, hist,
                   styles, splitVars>>

MouseOut(c) ==
    /\ Handles(c)
    /\ tooltip' = OnMouseOut(tooltip, consumers[c].text)
    /\ lastEvent' = Event("MouseOut", c, <<0, 0>>)
    /\ inside' = inside \ {c}
    /\ hist' = NextHist(hist, Out(c))
    /\ UNCHANGED <<provider, consumers, panicked, lastEntered,
                   styles, splitVars>>

\* _ => {}
OtherEvent(c) ==
    /\ Handles(c)
    /\ lastEvent' = Event("Other", c, <<0, 0>>)
    /\ UNCHANGED <<provider, tooltip, consumers, panicked,
                   lastEntered, inside, hist,
                   styles, splitVars>>

Next ==
    \/ \E props \in ProviderProps : TooltipProvider(props.position, props.size)
    \/ \E c \in Consumers : TooltipConsumer(c)
    \/ \E c \in Consumers : MouseIn(c)
    \/ \E c \in Consumers, mouse \in MousePositions : Hover(c, mouse)
    \/ \E c \in Consumers : MouseOut(c)
    \/ \E c \in Consumers : OtherEvent(c)

Spec == Init /\ [][Next]_vars

(***************************************************************************)
(* The same handlers under a pointer that enters a consumer before it      *)
(* hovers over it or leaves it, and leaves it before it enters it again.   *)
(***************************************************************************)

WellFormedNext ==
    \/ \E props \in ProviderProps : TooltipProvider(props.position, props.size)
    \/ \E c \in Consumers : TooltipConsumer(c)
    \/ \E c \in Consumers : c \notin inside /\ MouseIn(c)
    \/ \E c \in Consumers, mouse \in MousePositions : c \in inside /\ Hover(c, mouse)
    \/ \E c \in Consumers : c \in inside /\ MouseOut(c)
    \/ \E c \in Consumers : OtherEvent(c)

SpecWellFormed == Init /\ [][WellFormedNext]_vars

(***************************************************************************)
(* Construction under every style a caller may pass.  The styles are       *)
(* resolved at construction and no event reads them, so the trees are      *)
(* those of consumers with the default props and the steps are the render  *)
(* passes and the constructions.                                           *)
(***************************************************************************)

StyleInit ==
    /\ provider = FALSE
    /\ tooltip = TooltipDataDefault
    /\ consumers = [c \in Consumers |->
           [mounted |-> FALSE, anchor |-> None, size |-> None, text |-> ""]]
    /\ panicked = FALSE
    /\ lastEvent = NoEvent
    /\ lastEntered = 0
    /\ inside = {}
    /\ hist = <<>>
    /\ \E k \in [Consumers -> CallerStyles] :
          styles = [c \in Consumers |-> [caller |-> k[c], props |-> k[c]]]
    /\ inflight = [c \in Consumers |-> Idle]
    /\ overlapped = FALSE

StyleNext ==
    \/ \E props \in ProviderProps : TooltipProvider(props.position, props.size)
    \/ \E c \in Consumers : TooltipConsumer(c)

SpecStyle == StyleInit /\ [][StyleNext]_vars

(***************************************************************************)
(* The same handlers with data.get() and data.set(state) as separate       *)
(* steps, as they would run if the events of different consumers were      *)
(* dispatched in parallel.                                                 *)
(***************************************************************************)

\* The events dispatched in parallel: the arms of on_event that write visible,
\* text and size.  Hover is not dispatched here, so no consumer's anchor is
\* read, and the trees are those of consumers without a fixed anchor.
SplitEvents == {"MouseIn", "MouseOut"}

SplitInit == Init /\ \A c \in Consumers : ~consumers[c].anchor.some

\* The local state of the handler of c after its assignments, before its set.
on_event(type, c, mouse, state) ==
    CASE type = "MouseIn" -> OnMouseIn(state, consumers[c].size, consumers[c].text)
      [] type = "Hover" -> OnHover(state, consumers[c].anchor, mouse)
      [] type = "MouseOut" -> OnMouseOut(state, consumers[c].text)

\* let mut state = data.get(); and the assignments to the local state.  The
\* event counts as delivered when its handler starts.
Get(c, type, mouse) ==
    /\ Handles(c)
    /\ ~inflight[c].busy
    /\ inflight' = [inflight EXCEPT ![c] =
                      [busy |-> TRUE, state |-> on_event(type, c, mouse, tooltip)]]
    /\ overlapped' = (overlapped \/ \E d \in Consumers \ {c} : inflight[d].busy)
    /\ lastEvent' = Event(type, c, IF type = "Hover" THEN mouse ELSE <<0, 0>>)
    /\ lastEntered' = IF type = "MouseIn" THEN c ELSE lastEntered
    /\ inside' = CASE type = "MouseIn" -> inside \cup {c}
                   [] type = "MouseOut" -> inside \ {c}
                   [] OTHER -> inside
    /\ hist' = CASE type = "MouseIn" -> NextHist(hist, In(c))
                 [] type = "MouseOut" -> NextHist(hist, Out(c))
                 [] OTHER -> hist
    /\ UNCHANGED <<provider, tooltip, consumers, panicked, styles>>

\* data.set(state);
Set(c) ==
    /\ ~panicked
    /\ inflight[c].busy
    /\ tooltip' = inflight[c].state
    /\ inflight' = [inflight EXCEPT ![c] = Idle]
    /\ UNCHANGED <<provider, consumers, panicked, lastEvent, lastEntered, inside,
                   hist, styles, overlapped>>

SplitNext ==
    \/ \E props \in ProviderProps : TooltipProvider(props.position, props.size)
    \/ \E c \in Consumers : TooltipConsumer(c)
    \/ \E c \in Consumers, type \in SplitEvents, mouse \in MousePositions :
          Get(c, type, mouse)
    \/ \E c \in Consumers : Set(c)

SpecSplit == SplitInit /\ [][SplitNext]_vars

(***************************************************************************)
(* The claims.                                                             *)
(***************************************************************************)

\* The step being taken is the delivery of an event of this type to consumer c.
Delivers(type, c) == lastEvent'.type = type /\ lastEvent'.who = c

\* Consumer c entered most recently and has not left since.
Holds(c) == lastEntered = c /\ c \in inside

\* C1, the scenario: after MouseIn a, MouseIn b, MouseOut a, with any Hover
\* deliveries in between and the texts of a and b different, the tooltip is
\* visible and shows b's text at b's size.
C1_Scenario ==
    \A a, b \in Consumers :
        (/\ consumers[a].text # consumers[b].text
         /\ hist = <<In(a), In(b), Out(a)>>)
        => /\ tooltip.visible
           /\ tooltip.text = consumers[b].text
           /\ tooltip.size = consumers[b].size

\* C1, the general form: while the consumer b that entered most recently has
\* not left and no other consumer has b's text, a MouseOut of another consumer
\* does not turn a visible tooltip invisible.
C1_Step ==
    \A b, c \in Consumers :
        (/\ Holds(b)
         /\ \A d \in Consumers \ {b} : consumers[d].text # consumers[b].text
         /\ c # b
         /\ Delivers("MouseOut", c)
         /\ tooltip.visible)
        => tooltip'.visible

\* C1 (hide-guard): the leave of a consumer does not hide the tooltip that a
\* consumer with another text has claimed since: both forms above.
C1_HideGuard == []C1_Scenario /\ [][C1_Step]_vars

\* C1 is met: a has just left after b took the tooltip over, and the tooltip
\* shows b's text at b's size, which is not a's size.
C1_Witness ==
    \E a, b \in Consumers :
        /\ consumers[a].text # consumers[b].text
        /\ consumers[a].size # consumers[b].size
        /\ hist = <<In(a), In(b), Out(a)>>
        /\ lastEvent.type = "MouseOut" /\ lastEvent.who = a
        /\ tooltip.visible
        /\ tooltip.text = consumers[b].text
        /\ tooltip.size = consumers[b].size

\* C2 (single-consumer cycle): after MouseIn c followed, with any Hover
\* deliveries in between, by MouseOut c, the tooltip is hidden and its text
\* is c's text, whatever the state was before the MouseIn.
C2_SingleCycle ==
    \A c \in Consumers :
        hist = <<In(c), Out(c)>>
        => /\ ~tooltip.visible
           /\ tooltip.text = consumers[c].text

\* C2 is met: c entered, hovered (the anchor is a pointer position) and has
\* just left.
C2_Witness ==
    \E c \in Consumers :
        /\ hist = <<In(c), Out(c)>>
        /\ lastEvent.type = "MouseOut" /\ lastEvent.who = c
        /\ tooltip.anchor \in MousePositions
        /\ consumers[c].text # ""
        /\ ~tooltip.visible

\* C3 (construction needs a provider): a TooltipConsumer constructed where the
\* context holds no TooltipData provider panics, every time: its handler is
\* not installed and neither the provider nor the TooltipData cell nor any
\* other consumer changes.  With a provider the construction does not panic
\* and installs the handler.
C3_Step ==
    \A c \in Consumers :
        Delivers("Construct", c)
        => IF provider
           THEN ~panicked' /\ consumers'[c].mounted
           ELSE /\ panicked'
                /\ ~consumers'[c].mounted
                /\ UNCHANGED <<provider, tooltip, consumers>>

\* C3: every construction step is as C3_Step says: a panic that changes
\* nothing without a provider, an installed handler with one.
C3_ConstructionNeedsProvider == [][C3_Step]_vars

\* C3 is met: a construction without a provider has just panicked.
C3_Witness ==
    /\ lastEvent.type = "Construct"
    /\ ~provider
    /\ panicked
    /\ \A c \in Consumers : ~consumers[c].mounted

\* C4 (hover writes the anchor): after every Hover delivered to c the anchor
\* is c's fixed anchor if c has one and the pointer position of that Hover
\* otherwise, whatever text and visible are.
C4_HoverAnchor ==
    \A c \in Consumers :
        (lastEvent.type = "Hover" /\ lastEvent.who = c)
        => tooltip.anchor = IF consumers[c].anchor.some
                            THEN consumers[c].anchor.val
                            ELSE lastEvent.pos

\* C4 is met: c, which has no fixed anchor, hovered while the hidden tooltip
\* held the text of another consumer, after an earlier hover elsewhere.
C4_Witness ==
    \E c \in Consumers :
        /\ lastEvent.type = "Hover" /\ lastEvent.who = c
        /\ ~consumers[c].anchor.some
        /\ tooltip.text # consumers[c].text
        /\ ~tooltip.visible
        /\ lastEntered # 0
        /\ tooltip.anchor = <<100, 50>>

\* For whole numbers a and s: a < s / 2 exactly when a is below s / 2 rounded up.
BelowHalf(a, s) == a < (s + 1) \div 2

\* The placement rule of C5 for the overlay of the render pass just made:
\* provider size (w, h), anchor (ax, ay), tooltip size (tw, th) = state.size
\* or else (150, 18); left = ax + 10 if ax < w / 2, else ax - tw; top =
\* ay + 5 if ay < h / 2, else ay - th; no clamping.
C5_Rule ==
    LET ax == tooltip.anchor[1]
        ay == tooltip.anchor[2]
        w == lastEvent.size[1]
        h == lastEvent.size[2]
        tw == IF tooltip.size.some THEN tooltip.size.val[1] ELSE 150
        th == IF tooltip.size.some THEN tooltip.size.val[2] ELSE 18
    IN /\ lastEvent.overlay.left = IF BelowHalf(ax, w) THEN ax + 10 ELSE ax - tw
       /\ lastEvent.overlay.top = IF BelowHalf(ay, h) THEN ay + 5 ELSE ay - th

\* The overlay of the render pass just made, for provider size (200, 100), the
\* default tooltip size and the given anchor, is at (left, top).
C5_Example(anchor, left, top) ==
    (lastEvent.size = <<200, 100>> /\ ~tooltip.size.some /\ tooltip.anchor = anchor)
    => (lastEvent.overlay.left = left /\ lastEvent.overlay.top = top)

\* C5 as claimed: the placement rule, and the examples anchor (50, 50) at
\* (60, 55) and anchor (150, 80) at (0, 62).
C5_AsClaimed ==
    (lastEvent.type = "Render" /\ lastEvent.overlay.shown)
    => /\ C5_Rule
       /\ C5_Example(<<50, 50>>, 60, 55)
       /\ C5_Example(<<150, 80>>, 0, 62)

\* C5 (placement), amended: the placement rule holds of every rendered
\* overlay, whatever the provider's position; for provider size (200, 100)
\* and the default tooltip size, anchor (50, 50) is placed at (60, 32), since
\* 50 is not below 100 / 2, and anchor (150, 80) at (0, 62).
C5_Placement ==
    (lastEvent.type = "Render" /\ lastEvent.overlay.shown)
    => /\ C5_Rule
       /\ C5_Example(<<50, 50>>, 60, 32)
       /\ C5_Example(<<150, 80>>, 0, 62)

\* C5 is met: a render pass of a provider of size (200, 100) placed the
\* default-sized overlay for the anchor (50, 50).
C5_Witness ==
    /\ lastEvent.type = "Render"
    /\ lastEvent.size = <<200, 100>>
    /\ tooltip.anchor = <<50, 50>>
    /\ ~tooltip.size.some
    /\ lastEvent.overlay.shown
    /\ lastEvent.overlay.left = 60
    /\ lastEvent.overlay.top = 32

\* C6 (text is never cleared): the text is the empty string while no consumer
\* has received MouseIn, and from then on the text of the consumer that
\* received MouseIn most recently: MouseOut and Hover do not change it.
C6_TextNeverCleared ==
    tooltip.text = IF lastEntered = 0 THEN "" ELSE consumers[lastEntered].text

\* C6 is met: the consumer that entered last has just left; the tooltip is
\* hidden and still holds its text.
C6_Witness ==
    /\ lastEntered # 0
    /\ lastEvent.type = "MouseOut" /\ lastEvent.who = lastEntered
    /\ ~tooltip.visible
    /\ tooltip.text = "A"

\* C7 as claimed: while c is the consumer that entered most recently and has
\* not left, the MouseOut of any other consumer d, whatever its text, does not
\* turn visible from true to false.  (Stated for the d that the pointer is
\* inside of, the ones a MouseOut is due to.)
C7_Step ==
    \A c, d \in Consumers :
        (Holds(c) /\ d # c /\ d \in inside /\ Delivers("MouseOut", d) /\ tooltip.visible)
        => tooltip'.visible

\* C7 as claimed: no MouseOut of another consumer hides the tooltip of the
\* consumer that entered last and has not left.
C7_AsClaimed == [][C7_Step]_vars

\* C7, amended: while c is the consumer that entered most recently and has not
\* left, the MouseOut of another consumer whose text differs from c's text
\* does not turn visible from true to false.
C7_StepOtherText ==
    \A c, d \in Consumers :
        (/\ Holds(c)
         /\ d # c
         /\ consumers[d].text # consumers[c].text
         /\ Delivers("MouseOut", d)
         /\ tooltip.visible)
        => tooltip'.visible

\* C7, amended: no MouseOut of a consumer with another text hides the tooltip
\* of the consumer that entered last and has not left.
C7_OnlyOwnLeaveHides == [][C7_StepOtherText]_vars

\* C7 is met: d has just left while c, which entered after d and hovered,
\* holds the tooltip, and the tooltip is still visible.
C7_Witness ==
    \E c, d \in Consumers :
        /\ Holds(c)
        /\ d # c
        /\ consumers[d].text # consumers[c].text
        /\ hist = <<In(d), In(c), Out(d)>>
        /\ lastEvent.type = "MouseOut" /\ lastEvent.who = d
        /\ tooltip.anchor \in MousePositions
        /\ tooltip.visible

\* C8 (what a render pass renders): every render pass renders the children,
\* and the overlay exactly when visible is true; the overlay shows the
\* state's text at the state's size, or at 150 x 18 when the state has no
\* size.  In the initial state no overlay is rendered.
C8_Render ==
    lastEvent.type = "Render"
    => /\ lastEvent.children
       /\ lastEvent.overlay.shown <=> tooltip.visible
       /\ lastEvent.overlay.shown
            => /\ lastEvent.overlay.text = tooltip.text
               /\ <<lastEvent.overlay.width, lastEvent.overlay.height>> =
                     IF tooltip.size.some THEN tooltip.size.val ELSE <<150, 18>>
       /\ tooltip = TooltipDataDefault => lastEvent.overlay = NoOverlay

\* C8 is met: a render pass rendered the overlay at the explicit size of the
\* consumer whose text it shows.
C8_Witness ==
    /\ lastEvent.type = "Render"
    /\ tooltip.visible
    /\ tooltip.size.some
    /\ lastEvent.overlay.shown
    /\ lastEvent.overlay.text = "A"
    /\ lastEvent.overlay.width = 300
    /\ lastEvent.overlay.height = 200

\* C9 (MouseIn claims the tooltip): after MouseIn on c, from whatever state,
\* visible is true, the text is c's text and the size is c's size, none when c
\* has none.
C9_EnterClaims ==
    \A c \in Consumers :
        (lastEvent.type = "MouseIn" /\ lastEvent.who = c)
        => /\ tooltip.visible
           /\ tooltip.text = consumers[c].text
           /\ tooltip.size = consumers[c].size

\* C9 is met: c, which has no size, has just entered after a consumer with a
\* size and another text had entered; the size left by that consumer is gone.
C9_Witness ==
    \E a, c \in Consumers :
        /\ hist = <<In(a), In(c)>>
        /\ lastEvent.type = "MouseIn" /\ lastEvent.who = c
        /\ consumers[a].size.some
        /\ consumers[a].text # consumers[c].text
        /\ ~consumers[c].size.some
        /\ tooltip.size = None
        /\ tooltip.visible

\* C10 (MouseOut and visible), for the MouseOut of a consumer c that the
\* pointer is inside of: it sets visible to false when the text is c's text,
\* and leaves visible as it was when the text is not c's text; so it never
\* turns visible from false to true.
C10_Step ==
    \A c \in Consumers :
        (c \in inside /\ Delivers("MouseOut", c))
        => IF tooltip.text = consumers[c].text
           THEN ~tooltip'.visible
           ELSE tooltip'.visible = tooltip.visible

\* C10: every MouseOut hides the tooltip if it holds the leaving consumer's
\* text and leaves visible as it was otherwise.
C10_LeaveKeepsVisible == [][C10_Step]_vars

\* No handler is between its get and its set.
Quiescent == \A c \in Consumers : ~inflight[c].busy

\* After MouseIn a, MouseIn b, MouseOut a, with different texts of a and b,
\* b's claim stands: the tooltip is visible with b's text and b's size.
ClaimStands(a, b) ==
    (consumers[a].text # consumers[b].text /\ hist = <<In(a), In(b), Out(a)>>)
    => /\ tooltip.visible
       /\ tooltip.text = consumers[b].text
       /\ tooltip.size = consumers[b].size

\* C11 (atomicity): with get and set as separate steps, as long as no handler
\* has started while another was between its get and its set (every
\* read-modify-write ran as one indivisible unit), the leave of a does not
\* undo the claim of b, which entered after a with another text.  Where
\* handlers have interleaved, the claim can be lost: C11_Witness.
C11_SerialHideGuard ==
    ~overlapped => \A a, b \in Consumers : ClaimStands(a, b)

\* C11 is met: handlers have interleaved and all have finished; b entered last,
\* after a, and has not left, a has left, their texts differ, and the tooltip
\* is hidden and holds a's text.
C11_Witness ==
    \E a, b \in Consumers :
        /\ overlapped
        /\ Quiescent
        /\ consumers[a].text # consumers[b].text
        /\ hist = <<In(a), In(b), Out(a)>>
        /\ Holds(b)
        /\ ~tooltip.visible
        /\ tooltip.text = consumers[a].text

\* C12 (a render pass is a pure read): a render pass with the cell in place
\* leaves the TooltipData as the consumers' handlers wrote it, never back at
\* the default, and renders from that value: the overlay is shown exactly when
\* the value written last says visible, with the text written last.
C12_Step ==
    (lastEvent'.type = "Render" /\ provider)
    => /\ tooltip' = tooltip
       /\ lastEvent'.overlay.shown <=> tooltip.visible
       /\ lastEvent'.overlay.shown => lastEvent'.overlay.text = tooltip.text

\* C12: every render pass is as C12_Step says.
C12_RenderIsPureRead == [][C12_Step]_vars

\* C12 is met: a render pass has run after a consumer's MouseIn and Hover; the
\* cell still holds what they wrote and the overlay shows it.
C12_Witness ==
    /\ lastEvent.type = "Render"
    /\ lastEntered # 0
    /\ tooltip.visible
    /\ tooltip.text = "A"
    /\ tooltip.anchor = <<50, 50>>
    /\ lastEvent.overlay.shown
    /\ lastEvent.overlay.text = "A"

\* C13 (frame of each handler): MouseIn leaves the anchor alone; Hover leaves
\* visible, text and size alone; MouseOut leaves anchor, text and size alone;
\* any other event leaves the whole TooltipData alone.
C13_Step ==
    /\ lastEvent'.type = "MouseIn" => tooltip'.anchor = tooltip.anchor
    /\ lastEvent'.type = "Hover"
         => /\ tooltip'.visible = tooltip.visible
            /\ tooltip'.text = tooltip.text
            /\ tooltip'.size = tooltip.size
    /\ lastEvent'.type = "MouseOut"
         => /\ tooltip'.anchor = tooltip.anchor
            /\ tooltip'.text = tooltip.text
            /\ tooltip'.size = tooltip.size
    /\ lastEvent'.type = "Other" => tooltip' = tooltip

\* C13: every delivery is as C13_Step says.
C13_HandlerFrames == [][C13_Step]_vars

\* C13 is met: c, which follows the pointer, has just entered, and the anchor
\* is still the fixed anchor that a hover of another consumer wrote.
C13_Witness ==
    \E a, c \in Consumers :
        /\ a # c
        /\ lastEvent.type = "MouseIn" /\ lastEvent.who = c
        /\ ~consumers[c].anchor.some
        /\ consumers[a].anchor.some
        /\ tooltip.anchor = consumers[a].anchor.val
        /\ tooltip.text = consumers[c].text

\* C15 (visible only while the pointer is inside a consumer): under a pointer
\* that enters, hovers and leaves in order, whenever the tooltip is visible
\* some consumer has received MouseIn and no MouseOut since; so once every
\* consumer that entered has left, the tooltip is hidden.
C15_VisibleOnlyInside == tooltip.visible => inside # {}

\* C16 (text and size come from one claim): the text is empty and the size is
\* none while no consumer has entered; afterwards text and size are both those
\* of the consumer that entered most recently.
C16_TextAndSizeTogether ==
    IF lastEntered = 0
    THEN tooltip.text = "" /\ tooltip.size = None
    ELSE /\ tooltip.text = consumers[lastEntered].text
         /\ tooltip.size = consumers[lastEntered].size

\* C16 is met: d, whose text and size are not those of the consumer c that
\* entered last, has just left; text and size are both still c's.
C16_Witness ==
    \E c, d \in Consumers :
        /\ lastEntered = c
        /\ lastEvent.type = "MouseOut" /\ lastEvent.who = d
        /\ consumers[d].text # consumers[c].text
        /\ consumers[d].size # consumers[c].size
        /\ hist = <<In(d), In(c), Out(d)>>
        /\ tooltip.text = consumers[c].text
        /\ tooltip.size = consumers[c].size

\* The style field is set: it is not StyleProp::Unset.
IsSet(prop) == prop # "Unset"

====
